---- MODULE Spec2Model ----
(***************************************************************************)
(* A model of the `mark` archiver (src/src/main.rs): the pack pipeline     *)
(* (walk, dedup, header, entries), the byte-level archive format, and the  *)
(* read (list) and unpack pipelines.                                       *)
(*                                                                         *)
(* Bytes are naturals 0..255.  A path is the sequence of its components    *)
(* (std::path::Components), each component a sequence of bytes; the        *)
(* strings that travel through the archive are byte sequences.             *)
(***************************************************************************)
EXTENDS Integers, Sequences, FiniteSets, TLC

VARIABLES
    pc,          \* position of the running subcommand
    opts,        \* Opts: include_dotfiles, compression_method
    args,        \* pack's positional arguments (root paths)
    argi,        \* index of the next root the `for a in args` loop visits
    files,       \* pack's `files` vector of (name, canonical path)
    written,     \* number of entry records pack has written
    archive,     \* the byte stream pack wrote; later the reader's input
    contentA,    \* the contents of the source file /x/a
    dirRev,      \* whether read_dir reports entries in reverse order
    tamper,      \* what happened to the archive between pack and the reader
    cmd,         \* the reading subcommand: "unpack" or "read"
    pos,         \* the reader's position in the input (bytes consumed)
    file_count,  \* header.file_count as decoded by the reader
    iter,        \* number of completed iterations of the reader's loop
    listed,      \* read_archive's `files` vector
    out_fs,      \* the filesystem unpack writes to
    out0,        \* out_fs as it was when unpack started
    log,         \* per decoded entry, what unpack did with it
    err,         \* why the run panicked, "" if it did not
    layout,      \* where pack put each entry record in the archive
    hdr_in,      \* arguments of FileHeader::new (header codec runs)
    hdr          \* the FileHeader built from them, and its decoding

vars == <<pc, opts, args, argi, files, written, archive, contentA, dirRev,
          tamper, cmd, pos, file_count, iter, listed, out_fs, out0, log, err,
          layout, hdr_in, hdr>>

----------------------------------------------------------------------------
(* Bounds *)

MaxArgs == 2       \* longest list of pack roots
MaxData == 2       \* longest contents of the file /x/a

----------------------------------------------------------------------------
(* Option values and small sequence helpers *)

None == <<>>
Some(v) == <<v>>

Last(s) == s[Len(s)]
Front(s) == SubSeq(s, 1, Len(s) - 1)

RECURSIVE Rev(_)
Rev(s) == IF s = <<>> THEN <<>> ELSE Append(Rev(Tail(s)), Head(s))

\* lexicographic order of byte strings (OsStr comparison)
RECURSIVE BytesLess(_, _)
BytesLess(a, b) ==
    IF b = <<>> THEN FALSE
    ELSE IF a = <<>> THEN TRUE
    ELSE IF a[1] # b[1] THEN a[1] < b[1]
    ELSE BytesLess(Tail(a), Tail(b))

----------------------------------------------------------------------------
(* std::path as the program uses it *)

RootDir == <<47>>          \* "/"
CurDir == <<46>>           \* "."
ParentDir == <<46, 46>>    \* ".."

IsNormal(c) == c # RootDir /\ c # CurDir /\ c # ParentDir

\* Path::file_name: the final component, if it is a normal one
file_name(p) ==
    IF p # <<>> /\ IsNormal(Last(p)) THEN Some(Last(p)) ELSE None

\* Path::parent: the path without its final component; None for "/" and ""
path_parent(p) ==
    IF p = <<>> \/ Last(p) = RootDir THEN None ELSE Some(Front(p))

\* a dot test that never finds a dot
is_dot_name_never(n) == FALSE

\* the test `n.as_encoded_bytes()[0] == b'.'` on an Option<&OsStr>
is_dot_name(n) == n # None /\ n[1][1] = 46

IsPrefix(b, p) == Len(b) <= Len(p) /\ SubSeq(p, 1, Len(b)) = b

\* Path::strip_prefix(base).unwrap()
strip_prefix(p, base) == SubSeq(p, Len(base) + 1, Len(p))

\* Path::cmp: component by component
RECURSIVE PathLess(_, _)
PathLess(p, q) ==
    IF q = <<>> THEN FALSE
    ELSE IF p = <<>> THEN TRUE
    ELSE IF p[1] # q[1] THEN BytesLess(p[1], q[1])
    ELSE PathLess(Tail(p), Tail(q))

RECURSIVE JoinBytes(_)
JoinBytes(cs) ==
    IF cs = <<>> THEN <<>>
    ELSE IF Len(cs) = 1 THEN cs[1]
    ELSE cs[1] \o <<47>> \o JoinBytes(Tail(cs))

\* Path::to_str().unwrap().to_string(): the path as text
to_str(p) ==
    IF p # <<>> /\ p[1] = RootDir THEN <<47>> \o JoinBytes(Tail(p))
    ELSE JoinBytes(p)

\* the text between separators
RECURSIVE Segments(_, _)
Segments(s, cur) ==
    IF s = <<>> THEN <<cur>>
    ELSE IF s[1] = 47 THEN <<cur>> \o Segments(Tail(s), <<>>)
    ELSE Segments(Tail(s), Append(cur, s[1]))

RECURSIVE DropRedundant(_, _)
DropRedundant(segs, first) ==
    IF segs = <<>> THEN <<>>
    ELSE IF segs[1] = <<>> \/ (segs[1] = CurDir /\ ~first)
         THEN DropRedundant(Tail(segs), FALSE)
    ELSE <<segs[1]>> \o DropRedundant(Tail(segs), FALSE)

\* Path::components of a string: a leading "/" is the root, empty segments
\* and every "." but a leading one disappear
components(s) ==
    IF s # <<>> /\ s[1] = 47
    THEN <<RootDir>> \o DropRedundant(Tail(Segments(s, <<>>)), FALSE)
    ELSE DropRedundant(Segments(s, <<>>), TRUE)

\* PathBuf::join: an absolute argument replaces the base
path_join(base, name) ==
    LET n == components(name) IN
    IF n # <<>> /\ n[1] = RootDir THEN n
    ELSE IF n # <<>> /\ n[1] = CurDir THEN base \o Tail(n)
    ELSE base \o n

----------------------------------------------------------------------------
(* The source filesystem pack reads.  Names: x=120 y=121 a=97 b=98 c=99    *)
(* d=100 e=101 l=108 s=115 o=111.                                          *)
(*   /x/a  /x/l -> /x/a  /x/d/b  /x/d/.e  /x/.s/c  /y/a                    *)

nx == <<120>>
ny == <<121>>
na == <<97>>
nb == <<98>>
nc == <<99>>
nd == <<100>>
nl == <<108>>
ndote == <<46, 101>>
ndots == <<46, 115>>

Cwd == <<RootDir, nx>>
PathA == <<RootDir, nx, na>>

Dir(entries) == [kind |-> "dir", entries |-> entries]
File(data, mode, modified, accessed) ==
    [kind |-> "file", data |-> data, mode |-> mode,
     modified |-> modified, accessed |-> accessed]
Link(target) == [kind |-> "link", target |-> target]

Fs ==
    (<<RootDir>> :> Dir(<<nx, ny>>))
    @@ (<<RootDir, nx>> :> Dir(<<na, nd, ndots, nl>>))
    @@ (PathA :> File(<<>>, 33188, 100, 101))
    @@ (<<RootDir, nx, nd>> :> Dir(<<nb, ndote>>))
    @@ (<<RootDir, nx, nd, nb>> :> File(<<>>, 33261, 110, 111))
    @@ (<<RootDir, nx, nd, ndote>> :> File(<<9>>, 33152, 120, 121))
    @@ (<<RootDir, nx, ndots>> :> Dir(<<nc>>))
    @@ (<<RootDir, nx, ndots, nc>> :> File(<<3, 4>>, 33188, 130, 131))
    @@ (<<RootDir, nx, nl>> :> Link(PathA))
    @@ (<<RootDir, ny>> :> Dir(<<na>>))
    @@ (<<RootDir, ny, na>> :> File(<<5>>, 33188, 140, 141))

\* the kernel's path resolution from the working directory: ".." goes to
\* the parent, a symbolic link is followed
RECURSIVE Resolve(_, _)
Resolve(acc, p) ==
    IF p = <<>> THEN acc
    ELSE IF p[1] = RootDir THEN Resolve(<<RootDir>>, Tail(p))
    ELSE IF p[1] = CurDir THEN Resolve(acc, Tail(p))
    ELSE IF p[1] = ParentDir
         THEN Resolve(IF Len(acc) > 1 THEN Front(acc) ELSE acc, Tail(p))
    ELSE LET q == Append(acc, p[1]) IN
         IF q \in DOMAIN Fs /\ Fs[q].kind = "link"
         THEN Resolve(Fs[q].target, Tail(p))
         ELSE Resolve(q, Tail(p))

\* std::fs::canonicalize
canonicalize(p) == Resolve(Cwd, p)

\* Path::is_dir
is_dir(p) == canonicalize(p) \in DOMAIN Fs /\ Fs[canonicalize(p)].kind = "dir"

\* std::fs::read_dir: the entries in the order the filesystem reports
read_dir(p, rev) ==
    LET es == Fs[canonicalize(p)].entries IN IF rev THEN Rev(es) ELSE es

\* File::open(path).read_to_end
read_file(p, cA) == IF p = PathA THEN cA ELSE Fs[p].data

\* std::fs::metadata
metadata(p, cA) ==
    [len |-> Len(read_file(p, cA)), mode |-> Fs[p].mode,
     modified |-> Fs[p].modified, accessed |-> Fs[p].accessed]

----------------------------------------------------------------------------
(* walk and the closure pack passes to it *)

\* the closure of pack: returns the bool it answers and the files vector
callback(isdir, path, parent, include_dotfiles, acc) ==
    IF ~include_dotfiles /\ is_dot_name(file_name(path))
    THEN [ret |-> FALSE, files |-> acc]
    ELSE IF ~isdir
    THEN LET name == IF parent # None THEN strip_prefix(path, parent[1])
                     ELSE path
         IN [ret |-> TRUE,
             files |-> Append(acc, [name |-> to_str(name),
                                    path |-> canonicalize(path)])]
    ELSE [ret |-> TRUE, files |-> acc]

RECURSIVE walk(_, _, _, _, _)
RECURSIVE walk_entries(_, _, _, _, _, _)
walk(p, parent, include_dotfiles, rev, acc) ==
    IF is_dir(p)
    THEN walk_entries(p, read_dir(p, rev), parent, include_dotfiles, rev, acc)
    ELSE callback(FALSE, p, parent, include_dotfiles, acc).files

walk_entries(dir, names, parent, include_dotfiles, rev, acc) ==
    IF names = <<>> THEN acc
    ELSE LET path == Append(dir, names[1])
             r == callback(is_dir(path), path, parent, include_dotfiles, acc)
             acc2 == IF is_dir(path) /\ r.ret
                     THEN walk(path, parent, include_dotfiles, rev, r.files)
                     ELSE r.files
         IN walk_entries(dir, Tail(names), parent, include_dotfiles, rev, acc2)

\* one iteration of `for a in args`
pack_root(a, include_dotfiles, rev, acc) ==
    IF ~include_dotfiles /\ is_dot_name(file_name(a))
    THEN acc
    ELSE walk(a, path_parent(a), include_dotfiles, rev, acc)

\* files.sort_by(|l, r| l.1.cmp(&r.1)): a stable sort by canonical path
RECURSIVE insert_sorted(_, _)
insert_sorted(s, f) ==
    IF s = <<>> THEN <<f>>
    ELSE IF PathLess(f.path, s[1].path) THEN <<f>> \o s
    ELSE <<s[1]>> \o insert_sorted(Tail(s), f)

RECURSIVE sort_by_path(_)
sort_by_path(s) ==
    IF s = <<>> THEN <<>>
    ELSE insert_sorted(sort_by_path(Front(s)), Last(s))

\* a dedup that drops nothing
dedup_nothing(s) == s

\* files.dedup_by(|l, r| l.1 == r.1): drops an element equal in path to the
\* one kept before it
RECURSIVE dedup_by_path(_)
dedup_by_path(s) ==
    IF Len(s) <= 1 THEN s
    ELSE LET d == dedup_by_path(Front(s)) IN
         IF Last(s).path = Last(d).path THEN d ELSE Append(d, Last(s))

----------------------------------------------------------------------------
(* Integers on the wire *)

\* to_le_bytes of an integer of k bytes
RECURSIVE le_bytes(_, _)
le_bytes(n, k) ==
    IF k = 0 THEN <<>> ELSE <<n % 256>> \o le_bytes(n \div 256, k - 1)

\* from_le_bytes
RECURSIVE from_le_bytes(_)
from_le_bytes(b) ==
    IF b = <<>> THEN 0 ELSE b[1] + 256 * from_le_bytes(Tail(b))

\* A u32 that takes part in shifts is kept as its four little-endian bytes,
\* so that the bits a shift pushes out of the word are lost as in the code.
RECURSIVE bit_or(_, _)
bit_or(x, y) ==
    IF x = 0 /\ y = 0 THEN 0
    ELSE (IF x % 2 = 1 \/ y % 2 = 1 THEN 1 ELSE 0)
         + 2 * bit_or(x \div 2, y \div 2)

word_or(v, w) == [i \in 1..4 |-> bit_or(v[i], w[i])]
word_shl8(w) == <<0, w[1], w[2], w[3]>>
word_shr8(w) == <<w[2], w[3], w[4], 0>>
word_as_u8(w) == w[1]

----------------------------------------------------------------------------
(* DataCompression *)

\* `data_compression as u32`: the enum's discriminant
discriminant(c) == IF c = "None" THEN 0 ELSE 1

\* a conversion that falls back to None for a byte that is no tag
try_from_u8_fallback(x) ==
    IF x = 1 THEN Some("Brotli") ELSE Some("None")

\* impl TryFrom<u8> for DataCompression
try_from_u8(x) ==
    IF x = 0 THEN Some("None")
    ELSE IF x = 1 THEN Some("Brotli")
    ELSE None

\* The Brotli codec is a library; the model gives it the library's
\* contract: the stream is not the input, an empty input has a non-empty
\* stream, and decompressing a stream gives back the input.
brotli_compress(d) == <<6>> \o Rev(d)
brotli_valid(s) == s # <<>> /\ s[1] = 6
brotli_decompress(s) == Rev(Tail(s))

----------------------------------------------------------------------------
(* ArchiveHeader *)

ArchiveHeader_write(h) == le_bytes(h.version, 4) \o le_bytes(h.file_count, 4)

\* read_exact(n) at position p of the input: None at an early end
read_exact(input, p, n) ==
    IF Len(input) - p < n THEN None ELSE Some(SubSeq(input, p + 1, p + n))

ArchiveHeader_read(input) ==
    LET buf == read_exact(input, 0, 8) IN
    IF buf = None THEN None
    ELSE Some([version |-> from_le_bytes(SubSeq(buf[1], 1, 4)),
               file_count |-> from_le_bytes(SubSeq(buf[1], 5, 8))])

----------------------------------------------------------------------------
(* FileHeader: the 24 fixed bytes of an entry *)

FileHeader_new(mode, name_len, data_compression, data_uncompressed_len, data_len) ==
    [mode |-> mode,
     data_compression_and_name_len |->
         word_or(le_bytes(discriminant(data_compression), 4), word_shl8(name_len)),
     data_uncompressed_len |-> data_uncompressed_len,
     data_len |-> data_len]

FileHeader_write(h) ==
    le_bytes(h.mode, 4) \o h.data_compression_and_name_len
    \o le_bytes(h.data_uncompressed_len, 8) \o le_bytes(h.data_len, 8)

FileHeader_read(input, p) ==
    LET buf == read_exact(input, p, 24) IN
    IF buf = None THEN None
    ELSE Some([mode |-> from_le_bytes(SubSeq(buf[1], 1, 4)),
               data_compression_and_name_len |-> SubSeq(buf[1], 5, 8),
               data_uncompressed_len |-> from_le_bytes(SubSeq(buf[1], 9, 16)),
               data_len |-> from_le_bytes(SubSeq(buf[1], 17, 24))])

\* FileHeader::data_compression before its unwrap
FileHeader_data_compression(h) ==
    try_from_u8(word_as_u8(h.data_compression_and_name_len))

\* FileHeader::name_len
FileHeader_name_len(h) == word_shr8(h.data_compression_and_name_len)

----------------------------------------------------------------------------
(* FileHeaderRepr: an entry with its name and data *)

FileHeaderRepr_write(f) ==
    FileHeader_write(FileHeader_new(f.mode, le_bytes(Len(f.name), 4),
                                    f.data_compression,
                                    f.data_uncompressed_len, f.data_len))
    \o f.name \o f.data

\* io::copy(&mut reader.take(n), &mut io::sink())?: consumes what there is,
\* up to n bytes, and succeeds
skip_payload(input, p, n) ==
    IF Len(input) - p < n THEN Len(input) ELSE p + n

\* FileHeaderRepr::read: the entry and the new position, or the error
FileHeaderRepr_read(input, p, skip_data) ==
    LET header == FileHeader_read(input, p) IN
    IF header = None THEN [err |-> "eof", pos |-> p]
    ELSE
    LET h == header[1]
        nlen == from_le_bytes(FileHeader_name_len(h))
        name == read_exact(input, p + 24, nlen)
    IN
    IF name = None THEN [err |-> "eof", pos |-> p + 24]
    ELSE
    LET q == p + 24 + nlen
        data == IF skip_data THEN Some(<<>>) ELSE read_exact(input, q, h.data_len)
        r == IF skip_data THEN skip_payload(input, q, h.data_len)
             ELSE q + h.data_len
        tag == FileHeader_data_compression(h)
    IN
    IF data = None THEN [err |-> "eof", pos |-> q]
    ELSE IF tag = None THEN [err |-> "tag", pos |-> r]
    ELSE [err |-> "", pos |-> r,
          file |-> [mode |-> h.mode, data_compression |-> tag[1],
                    data_uncompressed_len |-> h.data_uncompressed_len,
                    data_len |-> h.data_len, name |-> name[1],
                    data |-> data[1]]]

----------------------------------------------------------------------------
(* The filesystem unpack writes to: a map from absolute paths to nodes *)

OutDir == <<RootDir, <<111>>>>      \* the output directory, /o

Now == 1000           \* the clock when unpack runs
CreateMode == 33188   \* st_mode of a file File::create makes: 0o100644

Pop(acc) == IF Len(acc) > 1 THEN Front(acc) ELSE acc

\* the kernel's lookup of an absolute path: every component but the last is
\* looked up in a directory that exists; None when one does not
RECURSIVE out_lookup(_, _, _)
out_lookup(fs, acc, p) ==
    IF p = <<>> THEN Some(acc)
    ELSE IF p[1] = RootDir THEN out_lookup(fs, <<RootDir>>, Tail(p))
    ELSE IF p[1] = CurDir THEN out_lookup(fs, acc, Tail(p))
    ELSE IF ~(acc \in DOMAIN fs /\ fs[acc].kind = "dir") THEN None
    ELSE IF p[1] = ParentDir THEN out_lookup(fs, Pop(acc), Tail(p))
    ELSE out_lookup(fs, Append(acc, p[1]), Tail(p))

\* Path::exists
path_exists(fs, p) ==
    LET r == out_lookup(fs, <<RootDir>>, p) IN r # None /\ r[1] \in DOMAIN fs

\* std::fs::create_dir_all: makes every missing directory on the way; fails
\* where a file is in the way
RECURSIVE create_dir_all(_, _, _)
create_dir_all(fs, acc, p) ==
    IF p = <<>> THEN [ok |-> TRUE, fs |-> fs]
    ELSE IF p[1] = RootDir THEN create_dir_all(fs, <<RootDir>>, Tail(p))
    ELSE IF p[1] = CurDir THEN create_dir_all(fs, acc, Tail(p))
    ELSE IF p[1] = ParentDir THEN create_dir_all(fs, Pop(acc), Tail(p))
    ELSE LET q == Append(acc, p[1]) IN
         IF q \notin DOMAIN fs
         THEN create_dir_all((q :> [kind |-> "dir"]) @@ fs, q, Tail(p))
         ELSE IF fs[q].kind = "dir" THEN create_dir_all(fs, q, Tail(p))
         ELSE [ok |-> FALSE, fs |-> fs]

\* std::fs::File::create: a new empty file, or an existing file truncated
file_create(fs, p) ==
    LET r == out_lookup(fs, <<RootDir>>, p) IN
    IF r = None \/ (r[1] \in DOMAIN fs /\ fs[r[1]].kind = "dir")
    THEN [ok |-> FALSE, fs |-> fs, path |-> <<>>]
    ELSE [ok |-> TRUE, path |-> r[1],
          fs |-> (r[1] :> File(<<>>, CreateMode, Now, Now)) @@ fs]

\* the `match file.data_compression` of unpack: the bytes written
unpack_payload(file) ==
    IF file.data_compression = "None" THEN Some(file.data)
    ELSE IF brotli_valid(file.data) THEN Some(brotli_decompress(file.data))
    ELSE None

OutBase == (<<RootDir>> :> [kind |-> "dir"]) @@ (OutDir :> [kind |-> "dir"])

\* the states of the output directory unpack may find: empty, holding a file
\* a, holding a file d
OutChoices ==
    { OutBase,
      (Append(OutDir, na) :> File(<<42>>, 33152, 50, 51)) @@ OutBase,
      (Append(OutDir, nd) :> File(<<43>>, 33152, 60, 61)) @@ OutBase }

----------------------------------------------------------------------------
(* Inputs *)

ArgLists(roots) == UNION { [1..k -> roots] : k \in 0..MaxArgs }

\* the roots pack is given, relative to the working directory /x:
\* a, d, .s, ../y/a, ..
Roots ==
    { <<na>>, <<nd>>, <<ndots>>, <<ParentDir, ny, na>>, <<ParentDir>> }

\* the roots of the runs whose archive is damaged before it is read
CorruptRoots == { <<na>>, <<nd>> }

ContentChoices == { [i \in 1..n |-> (i * 83) % 256] : n \in 0..MaxData }

HeaderBytes == {0, 1, 255}

InitCommon ==
    /\ opts \in [include_dotfiles : BOOLEAN,
                 compression_method : {"None", "Brotli"}]
    /\ argi = 1
    /\ files = <<>>
    /\ written = 0
    /\ archive = <<>>
    /\ contentA \in ContentChoices
    /\ dirRev \in BOOLEAN
    /\ tamper = [kind |-> "none", entry |-> 0]
    /\ cmd = ""
    /\ pos = 0
    /\ file_count = 0
    /\ iter = 0
    /\ listed = <<>>
    /\ out_fs = OutBase
    /\ out0 = OutBase
    /\ log = <<>>
    /\ err = ""
    /\ layout = <<>>

Init ==
    /\ pc = "pack"
    /\ args \in ArgLists(Roots)
    /\ hdr_in = <<>>
    /\ hdr = <<>>
    /\ InitCommon

InitCorrupt ==
    /\ pc = "pack"
    /\ args \in ArgLists(CorruptRoots)
    /\ hdr_in = <<>>
    /\ hdr = <<>>
    /\ InitCommon

----------------------------------------------------------------------------
(* pack *)

\* lines 110-113: no roots
PackNoArgs ==
    /\ pc = "pack"
    /\ args = <<>>
    /\ pc' = "exit"
    /\ UNCHANGED <<opts, args, argi, files, written, archive, contentA,
                   dirRev, tamper, cmd, pos, file_count, iter, listed,
                   out_fs, out0, log, err, layout, hdr_in, hdr>>

\* lines 117-147: one root
PackWalkRoot ==
    /\ pc = "pack"
    /\ args # <<>>
    /\ argi <= Len(args)
    /\ files' = pack_root(args[argi], opts.include_dotfiles, dirRev, files)
    /\ argi' = argi + 1
    /\ UNCHANGED <<pc, opts, args, written, archive, contentA, dirRev,
                   tamper, cmd, pos, file_count, iter, listed, out_fs, out0,
                   log, err, layout, hdr_in, hdr>>

\* a count that is one too many
header_file_count_off_by_one(fs) == Len(fs) + 1

\* `file_count: files.len() as u32`
header_file_count(fs) == Len(fs)

\* lines 148-156: sort, dedup, archive header
PackHeader ==
    /\ pc = "pack"
    /\ args # <<>>
    /\ argi > Len(args)
    /\ files' = dedup_by_path(sort_by_path(files))
    /\ archive' = ArchiveHeader_write([version |-> 0,
                                       file_count |-> header_file_count(files')])
    /\ pc' = "pack_entries"
    /\ UNCHANGED <<opts, args, argi, written, contentA, dirRev, tamper, cmd,
                   pos, file_count, iter, listed, out_fs, out0, log, err,
                   layout, hdr_in, hdr>>

\* lines 158-182: the entry of one file
pack_entry(f, method, cA) ==
    LET md == metadata(f.path, cA)
        raw == read_file(f.path, cA)
        buf == IF method = "None" THEN raw ELSE brotli_compress(raw)
    IN [mode |-> md.mode, data_compression |-> method,
        data_uncompressed_len |-> md.len, data_len |-> Len(buf),
        name |-> f.name, data |-> buf]

\* lines 157-188: one iteration of `for (name, path) in files`
PackWriteEntry ==
    /\ pc = "pack_entries"
    /\ written < Len(files)
    /\ LET f == pack_entry(files[written + 1], opts.compression_method, contentA)
           start == Len(archive)
       IN /\ archive' = archive \o FileHeaderRepr_write(f)
          /\ layout' = Append(layout,
                 [start |-> start,
                  payload |-> start + 24 + Len(f.name),
                  end |-> start + 24 + Len(f.name) + Len(f.data)])
    /\ written' = written + 1
    /\ UNCHANGED <<pc, opts, args, argi, files, contentA, dirRev, tamper,
                   cmd, pos, file_count, iter, listed, out_fs, out0, log,
                   err, hdr_in, hdr>>

\* line 189: pack returns
PackDone ==
    /\ pc = "pack_entries"
    /\ written = Len(files)
    /\ pc' = "packed"
    /\ UNCHANGED <<opts, args, argi, files, written, archive, contentA,
                   dirRev, tamper, cmd, pos, file_count, iter, listed,
                   out_fs, out0, log, err, layout, hdr_in, hdr>>

----------------------------------------------------------------------------
(* read (list) *)

\* lines 191-199: the archive header
ReadStart ==
    /\ pc = "packed"
    /\ cmd' = "read"
    /\ LET h == ArchiveHeader_read(archive) IN
       IF h = None
       THEN pc' = "panic" /\ err' = "eof" /\ UNCHANGED <<pos, file_count>>
       ELSE pc' = "read" /\ pos' = 8 /\ file_count' = h[1].file_count
            /\ UNCHANGED err
    /\ UNCHANGED <<opts, args, argi, files, written, archive, contentA,
                   dirRev, tamper, iter, listed, out_fs, out0, log, layout,
                   hdr_in, hdr>>

\* lines 200-203: one iteration of the loop
ReadEntry ==
    /\ pc = "read"
    /\ iter < file_count
    /\ LET r == FileHeaderRepr_read(archive, pos, TRUE) IN
       IF r.err # ""
       THEN pc' = "panic" /\ err' = r.err /\ pos' = r.pos
            /\ UNCHANGED <<iter, listed>>
       ELSE pos' = r.pos /\ iter' = iter + 1
            /\ listed' = Append(listed, r.file)
            /\ UNCHANGED <<pc, err>>
    /\ UNCHANGED <<opts, args, argi, files, written, archive, contentA,
                   dirRev, tamper, cmd, file_count, out_fs, out0, log,
                   layout, hdr_in, hdr>>

\* lines 205-215: the listing is printed and read_archive returns
ReadDone ==
    /\ pc = "read"
    /\ iter = file_count
    /\ pc' = "done"
    /\ UNCHANGED <<opts, args, argi, files, written, archive, contentA,
                   dirRev, tamper, cmd, pos, file_count, iter, listed,
                   out_fs, out0, log, err, layout, hdr_in, hdr>>

----------------------------------------------------------------------------
(* unpack *)

\* lines 217-227: the output directory as unpack finds it, the header
UnpackStart ==
    /\ pc = "packed"
    /\ cmd' = "unpack"
    /\ \E o \in OutChoices : out_fs' = o /\ out0' = o
    /\ LET h == ArchiveHeader_read(archive) IN
       IF h = None
       THEN pc' = "panic" /\ err' = "eof" /\ UNCHANGED <<pos, file_count>>
       ELSE pc' = "unpack" /\ pos' = 8 /\ file_count' = h[1].file_count
            /\ UNCHANGED err
    /\ UNCHANGED <<opts, args, argi, files, written, archive, contentA,
                   dirRev, tamper, iter, listed, log, layout, hdr_in, hdr>>

\* an existence test that never finds the destination
destination_exists_never(fs, file_path) == FALSE

\* line 231: `file_path.exists()`
destination_exists(fs, file_path) == path_exists(fs, file_path)

\* lines 230-250: what unpack does with a decoded entry
unpack_file(fs, file) ==
    LET file_path == path_join(OutDir, file.name) IN
    IF destination_exists(fs, file_path)
    THEN [what |-> "skip", fs |-> fs, path |-> file_path]
    ELSE
    LET parent == path_parent(file_path)
        mk == IF parent # None /\ ~path_exists(fs, parent[1])
              THEN create_dir_all(fs, <<RootDir>>, parent[1])
              ELSE [ok |-> TRUE, fs |-> fs]
    IN
    IF ~mk.ok THEN [what |-> "mkdir failed", fs |-> mk.fs, path |-> file_path]
    ELSE
    LET cr == file_create(mk.fs, file_path)
        bytes == unpack_payload(file)
    IN
    IF ~cr.ok THEN [what |-> "create failed", fs |-> mk.fs, path |-> file_path]
    ELSE IF bytes = None
    THEN [what |-> "decompress failed", fs |-> cr.fs, path |-> file_path]
    ELSE [what |-> "write", path |-> file_path,
          fs |-> [cr.fs EXCEPT ![cr.path].data = bytes[1]]]

\* lines 228-251: one iteration of the loop
UnpackEntry ==
    /\ pc = "unpack"
    /\ iter < file_count
    /\ LET r == FileHeaderRepr_read(archive, pos, FALSE) IN
       IF r.err # ""
       THEN pc' = "panic" /\ err' = r.err /\ pos' = r.pos
            /\ UNCHANGED <<iter, out_fs, log>>
       ELSE LET u == unpack_file(out_fs, r.file) IN
            /\ pos' = r.pos
            /\ out_fs' = u.fs
            /\ log' = Append(log, [name |-> r.file.name, path |-> u.path,
                                   what |-> u.what])
            /\ IF u.what \in {"skip", "write"}
               THEN iter' = iter + 1 /\ UNCHANGED <<pc, err>>
               ELSE pc' = "panic" /\ err' = u.what /\ UNCHANGED iter
    /\ UNCHANGED <<opts, args, argi, files, written, archive, contentA,
                   dirRev, tamper, cmd, file_count, listed, out0, layout,
                   hdr_in, hdr>>

\* line 252: unpack returns
UnpackDone ==
    /\ pc = "unpack"
    /\ iter = file_count
    /\ pc' = "done"
    /\ UNCHANGED <<opts, args, argi, files, written, archive, contentA,
                   dirRev, tamper, cmd, pos, file_count, iter, listed,
                   out_fs, out0, log, err, layout, hdr_in, hdr>>

----------------------------------------------------------------------------

Next ==
    \/ PackNoArgs
    \/ PackWalkRoot
    \/ PackHeader
    \/ PackWriteEntry
    \/ PackDone
    \/ ReadStart
    \/ ReadEntry
    \/ ReadDone
    \/ UnpackStart
    \/ UnpackEntry
    \/ UnpackDone

Spec == Init /\ [][Next]_vars

----------------------------------------------------------------------------
(* Archives damaged between pack and the reader *)

BadTags == {2, 255}

InPayload(k) == { i \in 1..Len(layout) : layout[i].payload <= k /\ k < layout[i].end }

\* the archive loses everything from byte k on
Truncate ==
    /\ pc = "packed"
    /\ tamper.kind = "none"
    /\ \E k \in 0..(Len(archive) - 1) :
          /\ archive' = SubSeq(archive, 1, k)
          /\ tamper' = IF InPayload(k) # {}
                       THEN [kind |-> "payload", entry |-> CHOOSE i \in InPayload(k) : TRUE]
                       ELSE [kind |-> "cut", entry |-> 0]
    /\ UNCHANGED <<pc, opts, args, argi, files, written, contentA, dirRev,
                   cmd, pos, file_count, iter, listed, out_fs, out0, log,
                   err, layout, hdr_in, hdr>>

\* the byte the decoder takes the compression tag from (the low byte of the
\* combined word, offset 4 of the entry) becomes a value that is no tag
SetTag ==
    /\ pc = "packed"
    /\ tamper.kind = "none"
    /\ \E i \in 1..Len(layout), v \in BadTags :
          /\ archive' = [archive EXCEPT ![layout[i].start + 5] = v]
          /\ tamper' = [kind |-> "tag", entry |-> i]
    /\ UNCHANGED <<pc, opts, args, argi, files, written, contentA, dirRev,
                   cmd, pos, file_count, iter, listed, out_fs, out0, log,
                   err, layout, hdr_in, hdr>>

NextCorrupt == Next \/ Truncate \/ SetTag

SpecCorrupt == InitCorrupt /\ [][NextCorrupt]_vars

----------------------------------------------------------------------------
(* The fixed entry header on its own: FileHeader::new, write, read and the *)
(* two accessors, for name lengths below 2^24                              *)

InitHeader ==
    /\ pc = "hdr"
    /\ hdr_in \in [name_len : { <<b1, b2, b3, 0>> : b1 \in HeaderBytes,
                                 b2 \in HeaderBytes, b3 \in HeaderBytes },
                   data_compression : {"None", "Brotli"}]
    /\ hdr = <<>>
    /\ args = <<>>
    /\ InitCommon
    /\ opts.include_dotfiles = FALSE
    /\ opts.compression_method = "None"
    /\ contentA = <<>>
    /\ dirRev = FALSE

HeaderNew ==
    /\ pc = "hdr"
    /\ hdr' = [h |-> FileHeader_new(CreateMode, hdr_in.name_len,
                                    hdr_in.data_compression, 0, 0)]
    /\ pc' = "hdr_new"
    /\ UNCHANGED <<opts, args, argi, files, written, archive, contentA,
                   dirRev, tamper, cmd, pos, file_count, iter, listed,
                   out_fs, out0, log, err, layout, hdr_in>>

HeaderCodec ==
    /\ pc = "hdr_new"
    /\ archive' = FileHeader_write(hdr.h)
    /\ LET back == FileHeader_read(archive', 0)[1] IN
       hdr' = [h |-> hdr.h, back |-> back,
               name_len |-> FileHeader_name_len(back),
               data_compression |-> FileHeader_data_compression(back)]
    /\ pc' = "hdr_done"
    /\ UNCHANGED <<opts, args, argi, files, written, contentA, dirRev,
                   tamper, cmd, pos, file_count, iter, listed, out_fs, out0,
                   log, err, layout, hdr_in>>

NextHeader == HeaderNew \/ HeaderCodec

SpecHeader == InitHeader /\ [][NextHeader]_vars

----------------------------------------------------------------------------
(* Definitions the properties are stated with *)

Range(f) == { f[i] : i \in DOMAIN f }

\* pack has sorted and deduplicated its files
AfterDedup == pc \in {"pack_entries", "packed", "read", "unpack", "done", "panic"}

\* every (name, path) pair the walks of all roots produce, before sort and dedup
RECURSIVE WalkedUpTo(_)
WalkedUpTo(i) ==
    IF i = 0 THEN <<>>
    ELSE pack_root(args[i], opts.include_dotfiles, dirRev, WalkedUpTo(i - 1))

Walked == WalkedUpTo(Len(args))

\* the entry count as the bytes of the archive state it
HeaderCount == from_le_bytes(SubSeq(archive, 5, 8))

\* the entry records that are in the bytes of an archive from position p on
RECURSIVE RecordsFrom(_, _)
RecordsFrom(input, p) ==
    IF p >= Len(input) THEN <<>>
    ELSE LET r == FileHeaderRepr_read(input, p, FALSE) IN
         IF r.err # "" THEN <<[bad |-> r.err]>>
         ELSE <<r.file>> \o RecordsFrom(input, r.pos)

\* where the kernel finds the destination of entry name n in filesystem fs
Destination(fs, n) == out_lookup(fs, <<RootDir>>, path_join(OutDir, n))

\* the files of the source filesystem at or below root r, and the names
\* that lead from r down to one of them
Under(r) ==
    { q \in DOMAIN Fs : IsPrefix(canonicalize(r), q) /\ Fs[q].kind # "dir" }
NamesDown(r, q) == SubSeq(q, Len(canonicalize(r)) + 1, Len(q))
NoDot(names) == \A i \in 1..Len(names) : names[i][1] # 46

\* the root has a file name (a final normal component) that begins with '.'
FileNameHasDot(r) == r # <<>> /\ IsNormal(Last(r)) /\ Last(r)[1] = 46
\* the text of the root's final component begins with '.'
LastTextHasDot(r) == r # <<>> /\ Last(r)[1] = 46

\* the files an archive must hold when a root is hidden according to Hidden
ExpectedFiles(Hidden(_)) ==
    { Resolve(<<RootDir>>, q[2]) :
        q \in { rq \in Range(args) \X DOMAIN Fs :
                  /\ rq[2] \in Under(rq[1])
                  /\ \/ opts.include_dotfiles
                     \/ ~Hidden(rq[1]) /\ NoDot(NamesDown(rq[1], rq[2])) } }

PackedPaths == { files[i].path : i \in 1..Len(files) }

----------------------------------------------------------------------------
(* Properties *)

\* C1 (as claimed): after pack and unpack into an empty output directory,
\* every packed file is there with the contents, the mode bits and the
\* modification and access times of the original.
C1_RoundTrip ==
    (pc = "done" /\ cmd = "unpack" /\ out0 = OutBase) =>
        \A i \in 1..Len(files) :
            LET d == Destination(out_fs, files[i].name)
                m == metadata(files[i].path, contentA)
            IN /\ d # None
               /\ d[1] \in DOMAIN out_fs
               /\ out_fs[d[1]].kind = "file"
               /\ out_fs[d[1]].data = read_file(files[i].path, contentA)
               /\ out_fs[d[1]].mode = m.mode
               /\ out_fs[d[1]].modified = m.modified
               /\ out_fs[d[1]].accessed = m.accessed

\* C2: the archive holds exactly one entry for every canonical path the
\* walks reach, however often they reach it, and the header counts it once.
C2_Dedup ==
    /\ AfterDedup =>
          \A i, j \in 1..Len(files) : i # j => files[i].path # files[j].path
    /\ pc = "packed" =>
          LET reached == { w.path : w \in Range(Walked) } IN
          /\ \A q \in reached :
                Cardinality({ i \in 1..Len(files) : files[i].path = q }) = 1
          /\ HeaderCount = Cardinality(reached)
          /\ Len(RecordsFrom(archive, 8)) = Cardinality(reached)

\* C2 witness: the walks reached /x/a three times, as the root a, and from
\* the root .. both by its own name and through the symbolic link /x/l; the
\* archive has one entry for it.
C2_Witness ==
    /\ pc = "packed"
    /\ args = << <<na>>, <<ParentDir>> >>
    /\ Cardinality({ i \in 1..Len(Walked) : Walked[i].path = PathA }) >= 3
    /\ Cardinality({ i \in 1..Len(files) : files[i].path = PathA }) = 1

\* C3 (amended): without the flag the archive holds exactly the files that
\* some root reaches through names none of which begins with '.', the
\* root's own file name included when it has one (a root ending in "." or
\* ".." has none and is never skipped); with the flag it holds every file
\* under the roots.  The root d, one dotfile and one other file, gives entry
\* count 1 without the flag and 2 with it.
C3_DotfileExclusion ==
    pc = "packed" =>
        /\ PackedPaths = ExpectedFiles(FileNameHasDot)
        /\ HeaderCount = Cardinality(ExpectedFiles(FileNameHasDot))
        /\ args = << <<nd>> >> =>
              HeaderCount = IF opts.include_dotfiles THEN 2 ELSE 1
        /\ LET records == RecordsFrom(archive, 8) IN
           /\ Len(records) = Len(files)
           /\ \A i \in 1..Len(files) : records[i].name = files[i].name

\* C3 witness: the root d was packed without the flag: one entry, and the
\* dotfile /x/d/.e is not in the archive.
C3_Witness ==
    /\ pc = "packed"
    /\ args = << <<nd>> >>
    /\ ~opts.include_dotfiles
    /\ HeaderCount = 1
    /\ <<RootDir, nx, nd, ndote>> \notin PackedPaths

\* C3 (as claimed): a root whose own name begins with '.' contributes
\* nothing without the flag.
C3_Original ==
    pc = "packed" => PackedPaths = ExpectedFiles(LastTextHasDot)

\* the entry unpack is about to decode
NextEntry == FileHeaderRepr_read(archive, pos, FALSE)

\* no node the output filesystem held when unpack started has changed
C4_Frame ==
    \A p \in DOMAIN out0 : p \in DOMAIN out_fs /\ out_fs[p] = out0[p]

\* when unpack has finished, every entry whose destination did not exist
\* has its file, with the contents of an entry of that name
C4_Restored ==
    (pc = "done" /\ cmd = "unpack") =>
        \A i \in 1..Len(files) :
            LET d0 == Destination(out0, files[i].name)
                d == Destination(out_fs, files[i].name)
            IN (d0 = None \/ d0[1] \notin DOMAIN out0) =>
                  /\ d # None
                  /\ d[1] \in DOMAIN out_fs
                  /\ out_fs[d[1]].kind = "file"
                  /\ \E j \in 1..Len(files) :
                        /\ files[j].name = files[i].name
                        /\ out_fs[d[1]].data = read_file(files[j].path, contentA)

\* the step of unpack for an entry whose destination exists changes no
\* file, reports the entry as skipped and goes on to the next entry
C4_SkipStep ==
    (/\ pc = "unpack"
     /\ iter < file_count
     /\ NextEntry.err = ""
     /\ path_exists(out_fs, path_join(OutDir, NextEntry.file.name)))
    => /\ out_fs' = out_fs
       /\ pc' = "unpack"
       /\ iter' = iter + 1
       /\ err' = ""
       /\ Len(log') = Len(log) + 1
       /\ log'[Len(log')].what = "skip"
       /\ log'[Len(log')].name = NextEntry.file.name

\* C4: an entry whose destination exists leaves the existing file as it
\* was, is reported, does not abort the run, and the entries whose
\* destination does not exist are restored.
C4_NonOverwrite == [](C4_Frame /\ C4_Restored) /\ [][C4_SkipStep]_vars

\* C4 witness: unpack finished in an output directory that held a file a;
\* the entry a was skipped, the file a is as it was, another entry was
\* written.
C4_Witness ==
    /\ pc = "done"
    /\ cmd = "unpack"
    /\ Append(OutDir, na) \in DOMAIN out0
    /\ \E i, j \in 1..Len(log) :
          /\ log[i].what = "skip"
          /\ log[i].name = na
          /\ log[j].what = "write"

\* C5 (as claimed): an archive cut in the payload of an entry, the last one
\* included, makes read and unpack fail.
C5_TruncationDetected ==
    tamper.kind = "payload" => pc # "done"

\* C6: the header's count is the number of records pack wrote and the
\* number of files after dedup, the archive holds that many records and
\* nothing else, and read and unpack finish after decoding that many.
C6_EntryCount ==
    /\ pc = "packed" =>
          LET records == RecordsFrom(archive, 8) IN
          /\ HeaderCount = Cardinality({ w.path : w \in Range(Walked) })
          /\ Len(records) = HeaderCount
          /\ \A i \in 1..Len(records) : "bad" \notin DOMAIN records[i]
    /\ (pc \in {"packed", "read", "unpack", "done"}) =>
          /\ HeaderCount = written
          /\ HeaderCount = Len(layout)
          /\ iter <= HeaderCount
    /\ pc = "done" =>
          /\ iter = HeaderCount
          /\ pos = Len(archive)
          /\ cmd = "read" => Len(listed) = HeaderCount
          /\ cmd = "unpack" => Len(log) = HeaderCount

\* C6 witness: read finished on an archive of three entries after decoding
\* three.
C6_Witness ==
    /\ pc = "done"
    /\ cmd = "read"
    /\ HeaderCount = 3
    /\ Len(listed) = 3

\* C7: once the tag byte of entry k is neither 0 nor 1, read and unpack
\* never finish, never get past entry k, stop at it with the tag error, and
\* unpack makes no file for entry k or a later one.
C7_UnknownTag ==
    tamper.kind = "tag" =>
        /\ pc # "done"
        /\ iter < tamper.entry
        /\ Len(listed) < tamper.entry
        /\ Len(log) < tamper.entry
        /\ (pc = "panic" /\ err \notin {"mkdir failed", "create failed"}) =>
              err = "tag" /\ iter = tamper.entry - 1
        /\ \A i \in tamper.entry..Len(files) :
              LET d == Destination(out_fs, files[i].name) IN
              (d # None /\ d[1] \in DOMAIN out_fs) =>
                  d[1] \in DOMAIN out0 /\ out_fs[d[1]] = out0[d[1]]

\* C7 witness: unpack wrote the first entry and stopped with the tag error
\* at the second.
C7_Witness ==
    /\ pc = "panic"
    /\ err = "tag"
    /\ cmd = "unpack"
    /\ tamper = [kind |-> "tag", entry |-> 2]
    /\ Len(log) = 1
    /\ log[1].what = "write"

\* C8 (as claimed): every file unpack makes is inside the output directory.
C8_Confined ==
    \A p \in DOMAIN out_fs :
        (out_fs[p].kind = "file" /\ p \notin DOMAIN out0) => IsPrefix(OutDir, p)

\* C9 (as claimed): the entries of one archive have pairwise distinct names.
C9_UniqueNames ==
    AfterDedup =>
        \A i, j \in 1..Len(files) : i # j => files[i].name # files[j].name

\* C10 (as claimed): the combined word has the tag in its higher 8 bits and
\* the name length in its lower 24; on the wire three bytes of name length
\* are followed by the tag byte; the accessors give back what new was given.
C10_HeaderLayout ==
    pc = "hdr_done" =>
        /\ hdr.h.data_compression_and_name_len
              = <<hdr_in.name_len[1], hdr_in.name_len[2], hdr_in.name_len[3],
                  discriminant(hdr_in.data_compression)>>
        /\ SubSeq(archive, 5, 7) = SubSeq(hdr_in.name_len, 1, 3)
        /\ archive[8] = discriminant(hdr_in.data_compression)
        /\ hdr.name_len = hdr_in.name_len
        /\ hdr.data_compression = Some(hdr_in.data_compression)

====
